CONSTANTS
    Producers = {p1}
    Seqs <- MCSeqs
    W = 3
    MaxReceived = 6
    MaxResets = 1
    WordBits = 2
SPECIFICATION Spec
PROPERTIES
    RefinesTracker
