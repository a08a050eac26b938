\* Three keys, values of one or two bytes, one reader.
SPECIFICATION Spec
CONSTANTS
    Keys <- ThreeKeys
    Bytes = {1}
    MaxLen = 2
    MaxRef = 1
    LastSaved <- LastRw
INVARIANTS SearchExact RangeValid WalkSeesAll
