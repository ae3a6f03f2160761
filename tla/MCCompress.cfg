SPECIFICATION Spec
CONSTANTS
    None = None
    HashSize <- MCHashSize
    HashLen <- MCHashLen
    Radix <- MCRadix
    MaxVarintBytes <- MCMaxVarintBytes
    IavlMaxPrefix <- MCIavlMaxPrefix
    InnerOps <- MCInnerOps
    Proofs <- MCProofs
    Received <- MCReceived
INVARIANTS
    LookupConsistent
    RoundTrip
    NothingTwice
