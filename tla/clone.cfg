CONSTANTS
    a = a  b = b  c = c  d = d  e = e  x = x
    Leaf <- MCLeaf
    Served <- MCServed
    Workers = 2
    FetchBatch = 2
    WriteBatch = 2
    Err = Err
    MaxFaults = 2
SPECIFICATION FairSpec
INVARIANTS LeavesSound CheckpointsVerified
PROPERTIES CloneEnds
