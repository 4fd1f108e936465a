CONSTANTS
    MaxMixed = 6
    MaxRows = 10
    Inputs <- MCInputs
    MaxDocuments = 2
    MaxEvidenceRows = 5
SPECIFICATION Spec
INVARIANTS
    PartitionIsLegal
    WholeDocuments
