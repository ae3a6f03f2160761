SPECIFICATION AbsenceSpec
CONSTANTS
    None = None
    HashSize <- MCHashSize
    HashLen <- MCHashLen
    Radix <- MCRadix
    MaxVarintBytes <- MCMaxVarintBytes
    IavlMaxPrefix <- MCIavlMaxPrefix
    Less <- MCLess
    Trees <- MCTreeSet
    Requests <- MCRequests
    Absences <- MCAbsences
INVARIANTS
    AbsenceInvariant
    NonMembershipSound
    KnownKeysAreTold
    AbsenceComplete
    PanicsOnLeafReadTwice
    AbsenceVerdict
PROPERTIES
    KeepsAbsencePromise
    EveryCallAnswered
