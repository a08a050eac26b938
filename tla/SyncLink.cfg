\* Lost frames, overtaking Follow_Ups, lost timestamps, failing sends and link changes.
SPECIFICATION FairSpec
CONSTANTS
    MaxSync = 2
    MaxInfo = 2
    MaxWire = 2
    LateTxts = FALSE
INVARIANTS FupIsOfItsSync MeasuresOneSync
PROPERTIES WaitsEnd
