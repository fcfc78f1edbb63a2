\* A peer that comes and goes, and the process itself, which counts as one too; both waits
\* for peers; no data reader.
CONSTANTS
    Participant = {self, p1}
    Self = self
    HasReader = {p1, self}
    Asking <- MCAsking
    Kind = {"rd_pong", "rd_data"}
    IgnoreLocal = FALSE
    Subscribing = FALSE
    MinMatch = 1
    InitWait = TRUE
    MaxWait = TRUE
    Modulus = 256
    Junk = junk
SPECIFICATION Spec
INVARIANTS TypeOK ExpectedAddsUp HeapHoldsDeadlines TablesCurrent NoMatchLost MatchCountExact SamplesHandled
PROPERTIES CloseEnds
