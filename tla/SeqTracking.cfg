\* Two keys, two publications, a broken connection loses samples, the numbers wrap at 3.
CONSTANTS
    Writer = {w1, w2}
    NKeys = 2
    HistDepth = 0
    Reliable = TRUE
    MinReceived = 2
    Modulus = 3
    Lossy = TRUE
    MaxWrites = 6
SPECIFICATION Spec
SYMMETRY Symmetry
INVARIANTS TypeOK LossDetected ExitTellsLoss
