SPECIFICATION AbsenceSpec
CONSTANTS
    None = None
    HashSize <- MCHashSize
    HashLen <- MCHashLen
    Radix <- MCRadix
    MaxVarintBytes <- MCMaxVarintBytes
    IavlMaxPrefix <- MCIavlMaxPrefix
    Less <- MCLess
    Trees <- MCGapTrees
    Requests <- MCGapRequests
    Absences <- MCGapAbsences
INVARIANTS
    RightMostAccepted
