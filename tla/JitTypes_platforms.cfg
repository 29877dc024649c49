SPECIFICATION JTSpec
CONSTANTS
    Platforms <- MCPlatforms
    ByteRange = 4
    NVs <- MCNVs
    MaxValues = 2
INVARIANTS
    JTTypeOK
    CalleeGets
