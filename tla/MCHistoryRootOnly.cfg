\* A bound of three entries for root events only.
CONSTANTS
    Proc = {p1}
    NoProc = NoProc
    Container = {c1}
    Digest = {d1}
    PolicyDigest = {e1}
    HistoryMax = {3}
    HistoryScope = {"ROOT_ONLY"}
    Fault = {}
    MaxRoot = 6
SPECIFICATION Spec
PROPERTY RootEventsTrim
