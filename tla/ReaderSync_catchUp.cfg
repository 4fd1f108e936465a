CONSTANTS
    doc = doc
    quote = quote
    remark = remark
    comment = comment
    Docs <- MCDocs
    Highlights <- MCHighlights
    Notes <- MCNotes
    Parent <- MCParent
    Summarised <- MCSummarised
    Syncs = {sync}
    MaxTime = 4
    Faults = {"crash"}
SPECIFICATION FairSpec
CHECK_DEADLOCK FALSE
INVARIANTS
    ReflectedUpToWatermark
    RepresentedOnce
PROPERTIES
    NothingIsTakenBack
    CorpusCatchesUp
