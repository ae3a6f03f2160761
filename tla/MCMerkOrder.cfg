SPECIFICATION AbsenceSpec
CONSTANTS
    None = None
    HashSize <- MCHashSize
    HashLen <- MCHashLen
    Radix <- MCRadix
    MaxVarintBytes <- MCMaxVarintBytes
    IavlMaxPrefix <- MCIavlMaxPrefix
    Less <- MCLess
    Trees <- MCMerkTrees
    Requests <- MCMerkRequests
    Absences <- MCMerkAbsences
INVARIANTS
    ChildOrderRespected
