\* One or two tasks filling and trimming a short history, allocations failing.
CONSTANTS
    Proc = {p1, p2}
    NoProc = NoProc
    Container = {c1}
    Digest = {d1}
    PolicyDigest = {e1}
    HistoryMax = {0, 2, 3}
    HistoryScope = {"GLOBAL", "ROOT_ONLY"}
    Fault = {"alloc"}
    MaxRoot = 5
SPECIFICATION Spec
SYMMETRY Symmetry
INVARIANTS
    HistoryLossless
    HistoryShowsLatest
    HistoryCountExact
