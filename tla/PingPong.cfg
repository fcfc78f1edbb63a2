\* Two peers, one of which may go or come again, three rounds, losses, one flagged sample.
CONSTANTS
    Peer = {p1, p2}
    Continuous = TRUE
    MaxSeq = 3
    MaxChange = 1
    MaxData = 1
    MaxInFlight = 1
SPECIFICATION Spec
CHECK_DEADLOCK FALSE
INVARIANTS TypeOK AtMostOneStalePong NeverSilent
PROPERTIES NextRoundAnswered PingingGoesOn
