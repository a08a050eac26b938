\* The requester against any sequence of answers: numbers wrap from 1 to 0.
SPECIFICATION ReqSpec
CONSTANTS
    SeqMod = 2
    AllowedLost = 1
    AllowedFaults = 0
    ConformToAvnu = TRUE
    InitialSeqs <- SeqOne
    Signaling = TRUE
INVARIANTS ReqTypeOK CapableIsMeasured CapableWhileAnswered CeasingIsSilent T1IsOfTheRequest
