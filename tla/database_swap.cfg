SPECIFICATION Spec
CONSTANTS
    r1 = r1
    r2 = r2
    Readers = {r1, r2}
    Attempts = 2
    MaxVersions = 2
    MaxFaults = 1
SYMMETRY ReaderSymmetry
INVARIANTS CommittedStays ReadsOneState
