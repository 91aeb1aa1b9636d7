------------------------------- MODULE Ledger -------------------------------
(***************************************************************************)
(* What the commit transaction promises, without tasks, locks, chips or    *)
(* error codes: an append-only ledger of values beside a register that is  *)
(* extended with every state of the ledger, before that state is           *)
(* published. The ledger is kept with the register or without it, never    *)
(* one after the other, and once sealed it does not change.                *)
(***************************************************************************)
EXTENDS Integers, Sequences

VARIABLES
    ledger,     \* published values, oldest first
    register,   \* ledger states extended into the register, oldest first
    pending,    \* the ledger state that is in the register, not yet published
    mode,       \* "open" until the first commit, then "hardware" or "software"
    sealed      \* no further commits

ledgerVars == <<ledger, register, pending, mode, sealed>>

\* new is old with one more element.
OneMore(old, new) == new # <<>> /\ new = Append(old, new[Len(new)])

Init ==
    /\ ledger = <<>>
    /\ register = <<>>
    /\ pending = <<>>
    /\ mode = "open"
    /\ sealed = FALSE

\* The register takes the next state of the ledger.
Extend ==
    /\ ~sealed
    /\ pending = <<>>
    /\ mode \in {"open", "hardware"}
    /\ OneMore(ledger, pending')
    /\ register' = Append(register, pending')
    /\ mode' = "hardware"
    /\ UNCHANGED <<ledger, sealed>>

\* The extended state is published; nothing can come between.
Publish ==
    /\ pending # <<>>
    /\ ledger' = pending
    /\ pending' = <<>>
    /\ UNCHANGED <<register, mode, sealed>>

\* Without a register the ledger alone grows.
CommitSoftware ==
    /\ ~sealed
    /\ pending = <<>>
    /\ mode \in {"open", "software"}
    /\ OneMore(ledger, ledger')
    /\ mode' = "software"
    /\ UNCHANGED <<register, pending, sealed>>

\* Something went wrong with the register: it may have taken one more state,
\* which is never published.
Seal ==
    /\ ~sealed
    /\ pending = <<>>
    /\ sealed' = TRUE
    /\ \/ UNCHANGED register
       \/ /\ mode \in {"open", "hardware"}
          /\ OneMore(register, register')
          /\ OneMore(ledger, register'[Len(register')])
    /\ UNCHANGED <<ledger, pending, mode>>

Next == Extend \/ Publish \/ CommitSoftware \/ Seal

Spec == Init /\ [][Next]_ledgerVars
=============================================================================
