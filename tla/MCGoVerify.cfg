SPECIFICATION Spec
CONSTANTS
    None = None
    HashSize <- MCHashSize
    HashLen <- MCHashLen
    Radix <- MCRadix
    MaxVarintBytes <- MCMaxVarintBytes
    IavlMaxPrefix <- MCIavlMaxPrefix
    Less <- MCLess
    DefaultDepth <- MCDefaultDepth
    Trees <- MCTreeSet
    Requests <- MCRequests
    Absences <- MCAbsences
INVARIANTS
    GoMembershipSound
    GoNonMembershipSound
    GoHonestAccepted
    GoPanicsOnLeafReadTwice
    ImplementationsAgree
