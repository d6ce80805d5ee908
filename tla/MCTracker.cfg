CONSTANTS
    Producers = {p1}
    Seqs <- MCSeqs
    W = 2
    MaxReceived = 5
    MaxResets = 1
SPECIFICATION AuditSpec
INVARIANTS
    LossBracket
    LossCounted
    WindowAnchored
    WindowFaithful
    LiveLossMetric
PROPERTIES
    DuplicatesJustified
    WatermarkRises
