\* One publication of pongs; memory that was never set holds 0 or more.
CONSTANTS
    Writer = {w1}
    PongWriter = {p1}
    Buffer = {b1, b2, b3}
    NoBuffer = NoBuffer
    RawSize = 2
    RefSize = 2
    MinRoundtrips = 2
    Unset = {0, 2}
    MaxSamples = 3
    MaxPongs = 2
    MaxPrints = 3
SPECIFICATION Spec
SYMMETRY Symmetry
INVARIANTS RoundtripsChecked
