\* Two tasks, two namespaces, two digests, every failure, no trimming.
CONSTANTS
    Proc = {p1, p2}
    NoProc = NoProc
    Container = {c1, c2}
    Digest = {d1, d2}
    PolicyDigest = {e1}
    HistoryMax = {0}
    HistoryScope = {"GLOBAL"}
    Fault = {"alloc", "hash", "tpm"}
    MaxRoot = 3
SPECIFICATION Spec
SYMMETRY Symmetry
INVARIANTS
    TransactionInv
    PcrTracksRoot
    PcrReadIsSettled
    DedupExact
    RootRecordsEachLeafOnce
    SuccessMeansMeasured
PROPERTIES
    LatchIsFinal
    EpochKeepsMode
    ImplementsLedger
