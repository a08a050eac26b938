\* Liveness of the requester: no message interval requests.
SPECIFICATION ReqFairSpec
CONSTANTS
    SeqMod = 2
    AllowedLost = 1
    AllowedFaults = 0
    ConformToAvnu = TRUE
    InitialSeqs <- SeqOne
    Signaling = FALSE
PROPERTY RequestsGoOn
