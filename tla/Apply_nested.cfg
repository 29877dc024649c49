CONSTANTS
    IntRange = 8
    IVs <- MCIVs
    Signatures <- MCSignatures
    MaxNest = 3
SPECIFICATION Spec
INVARIANTS TypeOK ResultRight RunsConverted
