CONSTANTS
    Values = {0, 1}
    Addend = 1
    MaxDepth = 3
SPECIFICATION Spec
INVARIANTS TypeOK FreshRead OwnResult
