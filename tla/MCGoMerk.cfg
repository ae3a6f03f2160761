SPECIFICATION Spec
CONSTANTS
    None = None
    HashSize <- MCHashSize
    HashLen <- MCHashLen
    Radix <- MCRadix
    MaxVarintBytes <- MCMaxVarintBytes
    IavlMaxPrefix <- MCIavlMaxPrefix
    Less <- MCLess
    DefaultDepth <- MCDefaultDepth
    Trees <- MCMerkTrees
    Requests <- MCNoRequests
    Absences <- MCMerkAbsences
INVARIANT SiblingsConsidered
