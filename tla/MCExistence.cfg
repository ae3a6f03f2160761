SPECIFICATION Spec
CONSTANTS
    None = None
    HashSize <- MCHashSize
    HashLen <- MCHashLen
    Radix <- MCRadix
    MaxVarintBytes <- MCMaxVarintBytes
    IavlMaxPrefix <- MCIavlMaxPrefix
    Less <- MCLess
    Trees <- MCTreeSet
    Requests <- MCRequests
INVARIANTS
    PathInvariant
    MembershipSound
    KeyValueSound
    ExistenceVerdict
    HonestAccepted
PROPERTIES
    KeepsPromise
