SPECIFICATION FairSpec
CONSTANTS
    Requests = {"plain", "hard"}
    Workers = {w1, w2}
    Candidates <- MCCandidates
    NoProvider = NoProvider
    MaxChunks = 2
    MaxCancels = 1
    MaxCrashes = 1
INVARIANTS TypeOK OneVoice CompletedIsRecorded
           CancelWins
PROPERTY CancelEnds
CHECK_DEADLOCK FALSE
