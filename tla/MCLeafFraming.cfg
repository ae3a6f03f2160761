SPECIFICATION Spec
CONSTANTS
    HashSize <- MCHashSize
    HashLen <- MCHashLen
    Radix <- MCRadix
    MaxVarintBytes <- MCMaxVarintBytes
    Leaves <- MCLeaves
    Data <- MCData
INVARIANT FramingUnambiguous
CHECK_DEADLOCK FALSE
