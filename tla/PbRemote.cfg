\* Two links, of which any may be another's.
SPECIFICATION DataSpec
CONSTANTS
    Links = {l1, l2}
    NoLink = NoLink
    TryMax = 2
    MaxEvents = 2
    Seqs = {0, 1}
    MaxFlight = 2
INVARIANTS Watched Named
PROPERTIES OnlyOwn ReportsFit Answered
