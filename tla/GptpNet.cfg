\* Either timestamp source; the ring of two slots wraps.
SPECIFICATION GnFairSpec
CONSTANTS
    MaxTxtsInfo = 2
    MaxSend = 3
    MaxRx = 1
    MaxSem = 2
    Sources <- BothSources
 
PROPERTIES RingIsFifo TxtsInOrder TimeoutServed
