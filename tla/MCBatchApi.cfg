SPECIFICATION BatchSpec
CONSTANTS
    None = None
    HashSize <- MCHashSize
    HashLen <- MCHashLen
    Radix <- MCRadix
    MaxVarintBytes <- MCMaxVarintBytes
    IavlMaxPrefix <- MCIavlMaxPrefix
    Less <- MCLess
    InnerOps <- MCInnerOps
    Proofs <- MCProofs
    Received <- MCReceived
    Trees <- MCTreeSet
    Queries <- MCQueries
INVARIANTS
    BatchSound
    HonestBatchAccepted
    CompressedAlike
