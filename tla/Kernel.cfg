\* Blueprints built by hand and from artifacts, changed and packaged again.
SPECIFICATION Spec
CONSTANTS
    None = None
    Artifacts <- MCArtifacts
    EvidenceOffered <- MCEvidence
    TransitionsOffered <- MCTransitions
    Grams = {0, 5, 11}
    Bytes = {2, 6, 600}
    SompiPerUnit = 100
    U64Max = 1000
    MaxTransitions = 2
    MaxEvidence = 2
INVARIANTS
    TypeOK
    CapabilitiesAgree
    PostureByTarget
PROPERTIES
    EvidenceNeverHurts
CHECK_DEADLOCK FALSE
