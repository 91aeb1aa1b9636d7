---------------------------- MODULE CommitLedger ----------------------------
(***************************************************************************)
(* The commit transaction as an implementation of Ledger.                  *)
(***************************************************************************)
EXTENDS Commit

\* The ledger as the commit transaction keeps it.
LedgerPending ==
    IF commit_mutex # NoProc /\ hardware_anchored
    THEN IF pc[commit_mutex] = "publish" THEN new_root[commit_mutex] ELSE Zero
    ELSE Zero

LedgerMode ==
    IF hardware_anchored THEN "hardware" ELSE IF software_committed THEN "software" ELSE "open"

L == INSTANCE Ledger WITH
         ledger <- root_hash, register <- pcr, pending <- LedgerPending,
         mode <- LedgerMode, sealed <- (bpfima_commit_error # "OK")

\* The transaction implements the ledger: with any interleaving of tasks and
\* any failure, what changes is a ledger step or nothing.
ImplementsLedger == L!Spec
=============================================================================
