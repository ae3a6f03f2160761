SPECIFICATION Spec
CONSTANTS
    None = None
    HashSize <- MCHashSize
    HashLen <- MCHashLen
    Radix <- MCRadix
    MaxVarintBytes <- MCMaxVarintBytes
    IavlMaxPrefix <- MCIavlMaxPrefix
    Less <- MCLess
    Trees <- MCTreeSet
    Requests <- MCBounded
INVARIANTS
    MaxDepthRespected
