\* One peer.
CONSTANTS
    Participant = {self, p1}
    Self = self
    HasReader = {}
    Asking = {}
    Kind = {"rd_pong", "wr_data"}
    IgnoreLocal = TRUE
    Subscribing = TRUE
    MinMatch = 0
    InitWait = FALSE
    MaxWait = FALSE
    Modulus = 256
    Junk = junk
SPECIFICATION Spec
INVARIANTS MatchCountExact
