\* Two publications: the second comes while the latencies of the first are printed.
CONSTANTS
    Writer = {w1, w2}
    PongWriter = {p1}
    Buffer = {b1, b2, b3, b4}
    NoBuffer = NoBuffer
    RawSize = 2
    RefSize = 2
    MinRoundtrips = 2
    Unset = {0}
    MaxSamples = 3
    MaxPongs = 2
    MaxPrints = 3
SPECIFICATION Spec
SYMMETRY Symmetry
INVARIANTS NoFreedRead
