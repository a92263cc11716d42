CONSTANTS
    a = a  b = b  c = c  d = d  x = x
    Leaf <- MCLeaf
    Served <- MCServed
    Width = 2
    None = None
    MaxGoldens = 2
    MaxFaults = 1
SPECIFICATION FairSpec
INVARIANTS TilesMatchLeaves GoldensSound ConsistentMeansStored
PROPERTIES SyncEnds
