\* One file with two contracts whose paths share a name.
SPECIFICATION Spec
CONSTANTS
    None = None
    Artifacts <- SameNames
    EvidenceOffered <- MCEvidence
    TransitionsOffered <- MCTransitions
    Grams = {0, 5, 11}
    Bytes = {2, 6, 600}
    SompiPerUnit = 100
    U64Max = 1000
    MaxTransitions = 2
    MaxEvidence = 2
INVARIANT
    PreviewsAreOwn
CHECK_DEADLOCK FALSE
