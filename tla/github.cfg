CONSTANTS
    a = a  b = b  w1 = w1  w2 = w2  w3 = w3  c1 = c1
    Leaf <- MCLeaf
    Trees <- MCTrees
    OtherData <- MCOtherData
    Signed <- MCTrees
    Witness = {w1, w2}
    Witnesses = {w1, w2}
    Stranger = w3
    MaxSigs = 2
    None = NoFile
    NoFile = NoFile
    MaxFaults = 1
    Hub = Hub
    Distributors = {Hub}
    Clients = {c1}
    N = 1
SPECIFICATION MCSpec
INVARIANTS SlotsSound MergedKept
PROPERTIES SignatureServed HubRefines
