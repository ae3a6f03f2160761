SPECIFICATION Spec
CONSTANTS
    g1 = g1
    g2 = g2
    g3 = g3
    shared = shared
    leaf = leaf
    inner = inner
    wide = wide
    Goroutines <- MCGoroutines
    OpIds <- MCOpIds
    Op <- MCOp
    Proofs <- MCProofs
    Bytes <- MCBytes
    Hash <- MCHash
    SizeClass <- MCSizeClass
INVARIANTS
    OwnImage
    OwnRoot
    OpsUnchanged
