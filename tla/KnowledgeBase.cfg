\* Two files, one of them a postmortem, two calls at once, one edit.
CONSTANTS
    Paths = {1, 2}
    Generated = {2}
    Bodies = {b1, b2}
    Fronts = {f1, f2}
    Calls = {c1, c2}
    Ids = {1, 2, 3, 4, 5, 6, 7, 8}
    MaxEdits = 1
    MaxCalls = 2
    Absent = Absent
    Unreadable = Unreadable
SPECIFICATION KBSpec
SYMMETRY Alike
INVARIANTS OneRowPerFile QuietIngestMirrors QuietCallIsSearchable
    SearchWaitsForTheIndex
