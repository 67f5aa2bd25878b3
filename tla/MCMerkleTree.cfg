SPECIFICATION TreeSpec
CONSTANTS
    MaxLeaves = 5
    MaxProof = 2
    AllProofs = 6
    Lists <- MCLists
    TriedItems <- MCItems
    TriedProofs <- MCProofs
CHECK_DEADLOCK FALSE
INVARIANTS
    EveryProofVerifies
    OnlyLeavesVerify
